---- MODULE Spec2Model ----
(***************************************************************************)
(* katoolin-lite: the apt orchestration core (apt.py) and the CLI handlers *)
(* built on it (cli.py), over an excerpt of the tool catalog (catalog.py). *)
(*                                                                         *)
(* Captured process output (stdout / stderr) is a sequence of one-letter   *)
(* strings, so that str.strip() and sorted() are computed, not assumed.    *)
(* Package names and category keys are plain strings.                      *)
(***************************************************************************)
EXTENDS Integers, Sequences, FiniteSets, TLC

VARIABLES
    file,             \* KALI_SOURCE_FILE: "absent", or what it holds: "snippet"
                      \* (KALI_SOURCE_SNIPPET), "other" (other text) or "empty" (no text)
    db,               \* dpkg database: package -> NotInstalled or its version text
    dpkg_ok,          \* dpkg-query is on PATH
    mgr_dry,          \* runner.dry_run of the manager / runner driven through the library API
    pc,               \* "idle", or the position inside the running CLI handler
    cur,              \* the operation running or last completed: [op, args]
    ret,              \* its outcome: [kind |-> "none" | "return" | "raise", val]
    pre,              \* [file, db] when that operation started
    trace,            \* what that operation did, in order: [ev, args]
    versions_before,  \* handle_install's local snapshot
    prev              \* summary of the operation completed before cur

vars == <<file, db, dpkg_ok, mgr_dry, pc, cur, ret, pre, trace, versions_before, prev>>

(***************************************************************************)
(* Bounds of the model.                                                    *)
(***************************************************************************)
\* How many tools of each catalog category the excerpt keeps (from the head
\* of the category's list in catalog.py).
MaxTools == 2

\* The longest package list of a tool handed to resolve_tool_version.
MaxPackages == 3

\* How many times another process changes the record while one call of the
\* manager is under way or waiting to be returned.
MaxExternal == 2

(***************************************************************************)
(* Text.                                                                   *)
(***************************************************************************)
\* Characters that occur in the modelled texts, in code-point order
\* ("\n" < " " < "1" < "2" < ":" < "E").
CharOrder == <<"\n", " ", "1", "2", ":", "E">>

CharRank(c) == CHOOSE i \in 1..Len(CharOrder) : CharOrder[i] = c

Whitespace == {"\n", " "}

RECURSIVE LStrip(_)
LStrip(t) ==
    IF t # <<>> /\ Head(t) \in Whitespace THEN LStrip(Tail(t)) ELSE t

RECURSIVE RStrip(_)
RStrip(t) ==
    IF t # <<>> /\ t[Len(t)] \in Whitespace THEN RStrip(SubSeq(t, 1, Len(t) - 1)) ELSE t

\* str.strip()
Strip(t) == RStrip(LStrip(t))

\* Python's < on str: lexicographic by code point.
RECURSIVE TextLess(_, _)
TextLess(a, b) ==
    IF b = <<>> THEN FALSE
    ELSE IF a = <<>> THEN TRUE
    ELSE IF Head(a) # Head(b) THEN CharRank(Head(a)) < CharRank(Head(b))
    ELSE TextLess(Tail(a), Tail(b))

\* sorted(S) for a set of texts
RECURSIVE SortedTexts(_)
SortedTexts(S) ==
    IF S = {} THEN <<>>
    ELSE LET m == CHOOSE x \in S : \A y \in S \ {x} : TextLess(x, y)
         IN  <<m>> \o SortedTexts(S \ {m})

\* Optional[str]: None, or a text.
None == <<>>

Some(t) == <<t>>

\* Python truthiness of an Optional[str]: None and "" are falsy.
Truthy(o) == o # None /\ o[1] # <<>>

(***************************************************************************)
(* catalog.py: an excerpt of CATALOG. Each category keeps the first        *)
(* MaxTools tools of its list, in the order of the source.                 *)
(***************************************************************************)
Tool(n, pkgs, auto) == [name |-> n, packages |-> pkgs, auto_updates |-> auto]

FirstTools(tools) == SubSeq(tools, 1, IF Len(tools) < MaxTools THEN Len(tools) ELSE MaxTools)

ReconTools ==
    << Tool("nmap", <<"nmap">>, TRUE),
       Tool("masscan", <<"masscan">>, TRUE),
       Tool("dnsenum", <<"dnsenum">>, TRUE),
       Tool("amass", <<"amass">>, TRUE) >>

CATALOG ==
    [ recon |-> [name |-> "Reconnaissance", tools |-> FirstTools(ReconTools)] ]

CatalogKeys == DOMAIN CATALOG

\* Package names of the excerpt in Python's str order (what sorted() yields).
NameOrder == <<"amass", "dnsenum", "masscan", "nmap">>

NameRank(n) == CHOOSE i \in 1..Len(NameOrder) : NameOrder[i] = n

\* sorted(S) for a set of package names
RECURSIVE SortedNames(_)
SortedNames(S) ==
    IF S = {} THEN <<>>
    ELSE LET m == CHOOSE x \in S : \A y \in S : NameRank(x) <= NameRank(y)
         IN  <<m>> \o SortedNames(S \ {m})

Range(s) == {s[i] : i \in DOMAIN s}

ToolPackages(category) ==
    UNION {Range(category.tools[i].packages) : i \in DOMAIN category.tools}

Packages == UNION {ToolPackages(CATALOG[k]) : k \in CatalogKeys}

\* Category keys as typed on the command line, and what
\* name.strip().lower() makes of each.
KeyInputs == {"recon", " Recon", "doesnotexist"}

StripLower(name) ==
    CASE name = " Recon" -> "recon"
      [] OTHER -> name

\* Category keys in Python's str order.
KeyOrder == <<"recon", "reverse">>

\* sorted(CATALOG)
SortedKeys ==
    LET n == Cardinality(CatalogKeys)
    IN  CHOOSE s \in [1..n -> CatalogKeys] :
            /\ Range(s) = CatalogKeys
            /\ \A i \in 1..(n - 1) :
                   \E a, b \in DOMAIN KeyOrder :
                       a < b /\ KeyOrder[a] = s[i] /\ KeyOrder[b] = s[i + 1]

\* KeyError(f"Unknown category '{name}'. Available: {', '.join(sorted(CATALOG))}"),
\* as the words of its message.
KeyError(name) ==
    [type |-> "KeyError", text |-> <<"Unknown category", name, "Available:">> \o SortedKeys]

\* get_category: the category, or KeyError
get_category(name) ==
    LET key == StripLower(name)
    IN  IF key \notin CatalogKeys
        THEN [raised |-> TRUE, exc |-> KeyError(name)]
        ELSE [raised |-> FALSE, category |-> CATALOG[key], key |-> key]

(***************************************************************************)
(* The host: the dpkg database and the processes the program spawns.       *)
(***************************************************************************)
Versions == {<<"1">>, <<"2">>}

NotInstalled == [status |-> "not-installed", version |-> <<>>]

Installed(v) == [status |-> "installed", version |-> v]

DbEntries == {NotInstalled} \cup {Installed(v) : v \in Versions}

\* What one package's entry can become when apt installs or upgrades it.
NewerOrSame(e) ==
    {Installed(v) : v \in {w \in Versions : e.version = w \/ TextLess(e.version, w)}}

ErrText == <<"E", ":", " ", "1", "\n">>

\* What a command other than apt-get writes to its stdout.
OutText == <<"1", "\n">>

UpdateCmd == <<"sudo", "apt-get", "update">>

InstallPrefix == <<"sudo", "apt-get", "install", "-y">>

UpgradePrefix == <<"sudo", "apt-get", "install", "--only-upgrade", "-y">>

IsPrefix(p, c) == Len(p) <= Len(c) /\ SubSeq(c, 1, Len(p)) = p

IsAptCommand(c) == IsPrefix(<<"sudo", "apt-get">>, c)

Proc(rc, out, err, d) == [returncode |-> rc, stdout |-> out, stderr |-> err, db |-> d]

\* d with the entries of the packages in dom(f) replaced by f's.
Patch(d, f) == [p \in DOMAIN d |-> IF p \in DOMAIN f THEN f[p] ELSE d[p]]

InstallChoices(e) ==
    IF e = NotInstalled THEN {Installed(v) : v \in Versions} ELSE NewerOrSame(e)

\* apt-get install -y pkgs: on exit 0 every named package is installed; on a
\* failure any of them may or may not have been installed.
InstallOutcomes(pkgs, d) ==
    LET named == Range(pkgs) \cap DOMAIN d
        ok    == {f \in [named -> DbEntries] : \A p \in named : f[p] \in InstallChoices(d[p])}
        part  == {f \in [named -> DbEntries] :
                    \A p \in named : f[p] = d[p] \/ f[p] \in InstallChoices(d[p])}
    IN  {Proc(0, <<>>, <<>>, Patch(d, f)) : f \in ok}
            \cup {Proc(100, <<>>, ErrText, Patch(d, f)) : f \in part}

\* apt-get install --only-upgrade -y pkgs: only installed packages change.
UpgradeOutcomes(pkgs, d) ==
    LET named == {p \in Range(pkgs) \cap DOMAIN d : d[p] # NotInstalled}
        upg   == {f \in [named -> DbEntries] : \A p \in named : f[p] \in NewerOrSame(d[p])}
    IN  {Proc(0, <<>>, <<>>, Patch(d, f)) : f \in upg}
            \cup {Proc(100, <<>>, ErrText, Patch(d, f)) : f \in upg}

\* What a spawned command can do and report.
ProcOutcomes(cmd, d) ==
    IF cmd = UpdateCmd
    THEN {Proc(0, <<>>, <<>>, d), Proc(100, <<>>, ErrText, d)}
    ELSE IF IsPrefix(UpgradePrefix, cmd)
    THEN UpgradeOutcomes(SubSeq(cmd, Len(UpgradePrefix) + 1, Len(cmd)), d)
    ELSE IF IsPrefix(InstallPrefix, cmd)
    THEN InstallOutcomes(SubSeq(cmd, Len(InstallPrefix) + 1, Len(cmd)), d)
    ELSE {Proc(0, OutText, <<>>, d), Proc(1, OutText, ErrText, d)}

\* Entries of packages that dpkg knows in other ways: Known is a package
\* that is listed but has no version (exit 0, empty output), Broken one for
\* which the query fails after printing (exit 2), Padded one whose version
\* is printed with white space around it.
Known == [status |-> "known", version |-> <<>>]

Broken == [status |-> "error", version |-> <<"2">>]

Padded == Installed(<<" ", "1", "\n">>)

QueryEntries == DbEntries \cup {Known, Broken, Padded}

\* dpkg-query -W -f=${Version} package
DpkgQuery(package, d) ==
    IF d[package].status = "not-installed"
    THEN Proc(1, <<>>, ErrText, d)
    ELSE IF d[package].status = "error"
    THEN Proc(2, d[package].version, ErrText, d)
    ELSE Proc(0, d[package].version, <<>>, d)

Ev(e, a) == [ev |-> e, args |-> a]

(***************************************************************************)
(* apt.py                                                                  *)
(***************************************************************************)
NoError == [type |-> "", msg |-> "", command |-> <<>>, detail |-> <<>>]

AptError(m, cmd, text) == [type |-> "AptError", msg |-> m, command |-> cmd, detail |-> text]

AptCommandResult(cmd, rc, out, err) ==
    [command |-> cmd, returncode |-> rc, stdout |-> out, stderr |-> err]

succeeded(r) == r.returncode = 0

\* Mutant: the exit code is never looked at (check is ignored).
run_unchecked(dry_run, command, check, d) ==
    IF dry_run
    THEN {[raised |-> FALSE, exc |-> NoError,
           result |-> AptCommandResult(command, 0, <<>>, <<>>),
           db |-> d, trace |-> <<Ev("run", command)>>]}
    ELSE {[raised |-> FALSE, exc |-> NoError,
           result |-> AptCommandResult(command, completed.returncode,
                                       completed.stdout, completed.stderr),
           db     |-> completed.db,
           trace  |-> <<Ev("run", command), Ev("spawn", command),
                        Ev("exit", <<IF completed.returncode = 0 THEN "zero"
                                     ELSE "non-zero">>)>>]
          : completed \in ProcOutcomes(command, d)}

\* AptRunner.run: every outcome of one call, as
\* [raised, exc, result, db, trace].
run(dry_run, command, check, d) ==
    IF dry_run
    THEN {[raised |-> FALSE, exc |-> NoError,
           result |-> AptCommandResult(command, 0, <<>>, <<>>),
           db |-> d, trace |-> <<Ev("run", command)>>]}
    ELSE {[raised |-> check /\ completed.returncode # 0,
           exc    |-> IF check /\ completed.returncode # 0
                      THEN AptError("command failed", command, Strip(completed.stderr))
                      ELSE NoError,
           result |-> AptCommandResult(command, completed.returncode,
                                       completed.stdout, completed.stderr),
           db     |-> completed.db,
           trace  |-> <<Ev("run", command), Ev("spawn", command),
                        Ev("exit", <<IF completed.returncode = 0 THEN "zero"
                                     ELSE "non-zero">>)>>]
          : completed \in ProcOutcomes(command, d)}

ensure_updated(dry_run, d) == run(dry_run, UpdateCmd, TRUE, d)

install_packages(dry_run, packages, d) == run(dry_run, InstallPrefix \o packages, TRUE, d)

upgrade_packages(dry_run, packages, d) == run(dry_run, UpgradePrefix \o packages, TRUE, d)

\* AptSourcesManager
source_exists(f) == f # "absent"

\* The line enable_source writes.
KALI_SOURCE_SNIPPET ==
    <<"deb http://http.kali.org/kali kali-rolling main contrib non-free non-free-firmware",
      "\n">>

\* KALI_SOURCE_FILE.read_text() for each state of an existing file.
Content(f) ==
    CASE f = "snippet" -> KALI_SOURCE_SNIPPET
      [] f = "other" -> <<"#", "\n">>
      [] f = "empty" -> <<>>

read_source(f) == IF ~source_exists(f) THEN <<>> ELSE Content(f)

\* dry_run argument: "None" takes the runner's flag
EffectiveDry(runner_dry, dry_run) ==
    IF dry_run = "None" THEN runner_dry ELSE dry_run = "True"

\* Mutant: the dry-run flag is not consulted.
enable_source_ignores_dry(f, runner_dry, dry_run) ==
    [file |-> "snippet", trace |-> <<Ev("mkdir", <<>>), Ev("write_text", <<>>)>>]

\* Mutant: a record that exists is left as it is.
enable_source_keeps_existing(f, runner_dry, dry_run) ==
    IF EffectiveDry(runner_dry, dry_run) \/ source_exists(f)
    THEN [file |-> f, trace |-> <<>>]
    ELSE [file |-> "snippet", trace |-> <<Ev("mkdir", <<>>), Ev("write_text", <<>>)>>]

enable_source(f, runner_dry, dry_run) ==
    IF EffectiveDry(runner_dry, dry_run)
    THEN [file |-> f, trace |-> <<>>]
    ELSE [file |-> "snippet", trace |-> <<Ev("mkdir", <<>>), Ev("write_text", <<>>)>>]

disable_source(f, runner_dry, dry_run) ==
    IF EffectiveDry(runner_dry, dry_run)
    THEN [file |-> f, trace |-> <<>>]
    ELSE IF source_exists(f)
    THEN [file |-> "absent", trace |-> <<Ev("source_exists", <<>>), Ev("unlink", <<>>)>>]
    ELSE [file |-> f, trace |-> <<Ev("source_exists", <<>>)>>]

\* Mutant: the record is written whenever it is wanted, present or not.
ensure_source_rewrites(f, runner_dry, enable) ==
    IF enable
    THEN [changed |-> TRUE, file |-> enable_source(f, runner_dry, "None").file,
          trace |-> <<Ev("source_exists", <<>>), Ev("enable_source", <<>>)>>
                        \o enable_source(f, runner_dry, "None").trace]
    ELSE IF source_exists(f)
    THEN [changed |-> TRUE, file |-> disable_source(f, runner_dry, "None").file,
          trace |-> <<Ev("source_exists", <<>>), Ev("disable_source", <<>>)>>
                        \o disable_source(f, runner_dry, "None").trace]
    ELSE [changed |-> FALSE, file |-> f, trace |-> <<Ev("source_exists", <<>>)>>]

\* Mutant: a removal is not reported as a change.
ensure_source_silent_removal(f, runner_dry, enable) ==
    IF enable /\ ~source_exists(f)
    THEN [changed |-> TRUE, file |-> enable_source(f, runner_dry, "None").file,
          trace |-> <<Ev("source_exists", <<>>), Ev("enable_source", <<>>)>>
                        \o enable_source(f, runner_dry, "None").trace]
    ELSE IF ~enable /\ source_exists(f)
    THEN [changed |-> FALSE, file |-> disable_source(f, runner_dry, "None").file,
          trace |-> <<Ev("source_exists", <<>>), Ev("disable_source", <<>>)>>
                        \o disable_source(f, runner_dry, "None").trace]
    ELSE [changed |-> FALSE, file |-> f, trace |-> <<Ev("source_exists", <<>>)>>]

ensure_source(f, runner_dry, enable) ==
    LET currently_enabled == source_exists(f)
        look == <<Ev("source_exists", <<>>)>>
    IN  IF enable /\ ~currently_enabled
        THEN LET e == enable_source(f, runner_dry, "None")
             IN  [changed |-> TRUE, file |-> e.file,
                  trace |-> look \o <<Ev("enable_source", <<>>)>> \o e.trace]
        ELSE IF ~enable /\ currently_enabled
        THEN LET e == disable_source(f, runner_dry, "None")
             IN  [changed |-> TRUE, file |-> e.file,
                  trace |-> look \o <<Ev("disable_source", <<>>)>> \o e.trace]
        ELSE [changed |-> FALSE, file |-> f, trace |-> look]

QueryCmd(package) == <<"dpkg-query", "-W", "-f=${Version}", package>>

\* Mutant: a non-zero exit of the query is an error.
get_installed_version_strict(package, d, have_dpkg) ==
    IF ~have_dpkg \/ DpkgQuery(package, d).returncode # 0
    THEN [raised |-> TRUE, exc |-> AptError("dpkg-query command not found", <<>>, <<>>),
          val |-> None, trace |-> <<Ev("spawn_failed", QueryCmd(package))>>]
    ELSE [raised |-> FALSE, exc |-> NoError,
          val |-> IF Strip(DpkgQuery(package, d).stdout) = <<>> THEN None
                  ELSE Some(Strip(DpkgQuery(package, d).stdout)),
          trace |-> <<Ev("spawn", QueryCmd(package))>>]

\* get_installed_version: [raised, exc, val, trace]
get_installed_version(package, d, have_dpkg) ==
    IF ~have_dpkg
    THEN [raised |-> TRUE, exc |-> AptError("dpkg-query command not found", <<>>, <<>>),
          val |-> None, trace |-> <<Ev("spawn_failed", QueryCmd(package))>>]
    ELSE LET result == DpkgQuery(package, d)
         IN  [raised |-> FALSE, exc |-> NoError,
              val |-> IF result.returncode # 0 THEN None
                      ELSE IF Strip(result.stdout) = <<>> THEN None
                      ELSE Some(Strip(result.stdout)),
              trace |-> <<Ev("spawn", QueryCmd(package))>>]

PermissionDenied ==
    AptError("This operation requires root privileges. Re-run with sudo.", <<>>, <<>>)

\* Mutant: the effective user is not looked at.
require_root_never(root) == [raised |-> FALSE, exc |-> NoError]

require_root(root) ==
    IF ~root
    THEN [raised |-> TRUE, exc |-> PermissionDenied]
    ELSE [raised |-> FALSE, exc |-> NoError]

RECURSIVE Join(_)
\* ", ".join(texts)
Join(texts) ==
    IF texts = <<>> THEN <<>>
    ELSE IF Len(texts) = 1 THEN texts[1]
    ELSE texts[1] \o <<",", " ">> \o Join(Tail(texts))

(***************************************************************************)
(* cli.py: resolve_tool_version                                            *)
(***************************************************************************)
RECURSIVE Flatten(_)
Flatten(ss) == IF ss = <<>> THEN <<>> ELSE Head(ss) \o Flatten(Tail(ss))

\* Steps run in order until one raises. rs: the outcome each step would
\* have, each with raised, exc and trace.
FirstRaised(rs) ==
    IF \E i \in DOMAIN rs : rs[i].raised
    THEN CHOOSE i \in DOMAIN rs : rs[i].raised /\ \A j \in 1..(i - 1) : ~rs[j].raised
    ELSE 0

ExcOf(rs) == IF FirstRaised(rs) = 0 THEN NoError ELSE rs[FirstRaised(rs)].exc

TraceOf(rs) ==
    Flatten([i \in 1..(IF FirstRaised(rs) = 0 THEN Len(rs) ELSE FirstRaised(rs)) |->
                rs[i].trace])

\* The one element of a singleton set. {F(x) : x \in {e}} evaluates e once
\* and names its value x.
Value(S) == CHOOSE v \in S : TRUE

\* get_installed_version over packages, in order, stopping at the first
\* exception: [raised, exc, vals, trace]
QueryAll(packages, d, have_dpkg) ==
    Value({[raised |-> FirstRaised(rs) # 0, exc |-> ExcOf(rs), trace |-> TraceOf(rs),
            vals |-> IF FirstRaised(rs) # 0 THEN <<>> ELSE [i \in 1..Len(rs) |-> rs[i].val]]
           : rs \in {[i \in 1..Len(packages) |->
                        get_installed_version(packages[i], d, have_dpkg)]}})

RECURSIVE Compact(_)
\* the truthy values of vals, in order
Compact(vals) ==
    IF vals = <<>> THEN <<>>
    ELSE IF Truthy(Head(vals)) THEN <<Head(vals)[1]>> \o Compact(Tail(vals))
    ELSE Compact(Tail(vals))

\* Mutant: the versions are joined in the order of the packages
\* (", ".join(versions), without sorted(set(...))).
resolve_tool_version_in_order(tool, d, have_dpkg) ==
    Value({[raised |-> q.raised, exc |-> q.exc, trace |-> q.trace,
            val |-> IF q.raised \/ \A j \in DOMAIN q.vals : ~Truthy(q.vals[j]) THEN None
                    ELSE Some(Join(Compact(q.vals)))]
           : q \in {QueryAll(tool.packages, d, have_dpkg)}})

resolve_tool_version(tool, d, have_dpkg) ==
    Value({[raised |-> q.raised, exc |-> q.exc, trace |-> q.trace,
            val |-> IF q.raised \/ \A j \in DOMAIN q.vals : ~Truthy(q.vals[j]) THEN None
                    ELSE Some(Join(SortedTexts(
                            {q.vals[i][1] : i \in {j \in DOMAIN q.vals : Truthy(q.vals[j])}})))]
           : q \in {QueryAll(tool.packages, d, have_dpkg)}})

(***************************************************************************)
(* State.                                                                  *)
(***************************************************************************)
\* An operation: a library call or one run of main(argv).
Call(name) ==
    [op |-> name, dry |-> FALSE, want |-> FALSE, root |-> FALSE, category |-> "",
     upgrade |-> FALSE, only_installed |-> FALSE, disable |-> FALSE, dry_arg |-> "None",
     command |-> <<>>, check |-> FALSE]

NoResult == AptCommandResult(<<>>, -1, <<>>, <<>>)

\* Outcome of an operation. code: the exit code main returns; flag: a
\* boolean return value; result: an AptCommandResult; report: the lines a
\* CLI handler prints about tools; val: an Optional[str] return value.
NoRet ==
    [kind |-> "none", code |-> -1, flag |-> FALSE, result |-> NoResult,
     exc |-> NoError, report |-> <<>>, val |-> None]

Returned == [NoRet EXCEPT !.kind = "return"]

Raised(e) == [NoRet EXCEPT !.kind = "raise", !.exc = e]

NoSnapshot == [p \in {} |-> None]

TargetOps == {"ensure_source", "repo enable"}

Forgotten ==
    [op |-> "other", want |-> FALSE, dry |-> FALSE, root |-> FALSE,
     existed |-> FALSE, flag |-> FALSE]

\* What is remembered of the operation before the current one, when both
\* set the record's target state: the target, the record's presence before
\* it and the change it reported.
Summary(c, r, p) ==
    IF c.op \in TargetOps
    THEN [op |-> c.op, want |-> IF c.op = "repo enable" THEN ~c.disable ELSE c.want,
          dry |-> c.dry, root |-> c.root,
          existed |-> source_exists(p.file), flag |-> r.flag]
    ELSE Forgotten

FileStates == {"absent", "snippet", "other", "empty"}

Init ==
    /\ file \in FileStates
    /\ db \in [Packages -> DbEntries]
    /\ dpkg_ok \in BOOLEAN
    /\ mgr_dry \in BOOLEAN
    /\ pc = "idle"
    /\ cur = Call("none")
    /\ ret = NoRet
    /\ pre = [file |-> file, db |-> db]
    /\ trace = <<>>
    /\ versions_before = NoSnapshot
    /\ prev = Summary(Call("none"), NoRet, [file |-> file, db |-> db])

\* A new operation starts.
Begin(c) ==
    /\ pc = "idle"
    /\ cur' = c
    /\ pre' = [file |-> file, db |-> db]
    /\ prev' = IF c.op \in TargetOps THEN prev ELSE Forgotten

\* The operation is over: its caller (the shell, for main) has its outcome,
\* and the next operation can start.
Return ==
    /\ pc = "done"
    /\ pc' = "idle"
    /\ prev' = Summary(cur, ret, pre)
    /\ cur' = Call("none")
    /\ ret' = NoRet
    /\ trace' = <<>>
    /\ versions_before' = NoSnapshot
    /\ pre' = [file |-> file, db |-> db]
    /\ UNCHANGED <<file, db, dpkg_ok, mgr_dry>>

(***************************************************************************)
(* Library calls on one AptSourcesManager(AptRunner(dry_run = mgr_dry)).   *)
(***************************************************************************)
CallEnableSource ==
    \E dry_run \in {"None", "True", "False"} :
        LET e == enable_source(file, mgr_dry, dry_run)
        IN  /\ Begin([Call("enable_source") EXCEPT
                        !.dry = EffectiveDry(mgr_dry, dry_run), !.dry_arg = dry_run])
            /\ file' = e.file
            /\ trace' = e.trace
            /\ ret' = Returned
            /\ pc' = "done"
            /\ UNCHANGED <<db, dpkg_ok, mgr_dry, versions_before>>

CallDisableSource ==
    \E dry_run \in {"None", "True", "False"} :
        LET e == disable_source(file, mgr_dry, dry_run)
        IN  /\ Begin([Call("disable_source") EXCEPT
                        !.dry = EffectiveDry(mgr_dry, dry_run), !.dry_arg = dry_run])
            /\ file' = e.file
            /\ trace' = e.trace
            /\ ret' = Returned
            /\ pc' = "done"
            /\ UNCHANGED <<db, dpkg_ok, mgr_dry, versions_before>>

CallReadSource ==
    /\ Begin([Call("read_source") EXCEPT !.dry = mgr_dry])
    /\ trace' = <<Ev("source_exists", <<>>)>>
                    \o (IF source_exists(file) THEN <<Ev("read_text", <<>>)>> ELSE <<>>)
    /\ ret' = [Returned EXCEPT !.val = Some(read_source(file))]
    /\ pc' = "done"
    /\ UNCHANGED <<file, db, dpkg_ok, mgr_dry, versions_before>>

CallEnsureSource ==
    \E enable \in BOOLEAN :
        LET e == ensure_source(file, mgr_dry, enable)
        IN  /\ Begin([Call("ensure_source") EXCEPT !.dry = mgr_dry, !.want = enable])
            /\ file' = e.file
            /\ trace' = e.trace
            /\ ret' = [Returned EXCEPT !.flag = e.changed]
            /\ pc' = "done"
            /\ UNCHANGED <<db, dpkg_ok, mgr_dry, versions_before>>

\* The outcome o of a runner call becomes the operation's outcome.
Finish(o) ==
    /\ db' = o.db
    /\ trace' = o.trace
    /\ ret' = IF o.raised THEN Raised(o.exc) ELSE [Returned EXCEPT !.result = o.result]
    /\ pc' = "done"
    /\ UNCHANGED <<file, dpkg_ok, mgr_dry, versions_before>>

CallRun ==
    \E command \in {UpdateCmd, <<"true">>}, check \in BOOLEAN :
        \E o \in run(mgr_dry, command, check, db) :
            /\ Begin([Call("run") EXCEPT
                        !.dry = mgr_dry, !.command = command, !.check = check])
            /\ Finish(o)

CallEnsureUpdated ==
    \E o \in ensure_updated(mgr_dry, db) :
        /\ Begin([Call("ensure_updated") EXCEPT !.dry = mgr_dry])
        /\ Finish(o)

PackageLists == {<<>>, <<"nmap">>}

CallInstallPackages ==
    \E packages \in PackageLists :
        \E o \in install_packages(mgr_dry, packages, db) :
            /\ Begin([Call("install_packages") EXCEPT !.dry = mgr_dry, !.command = packages])
            /\ Finish(o)

CallUpgradePackages ==
    \E packages \in PackageLists :
        \E o \in upgrade_packages(mgr_dry, packages, db) :
            /\ Begin([Call("upgrade_packages") EXCEPT !.dry = mgr_dry, !.command = packages])
            /\ Finish(o)

Library ==
    \/ CallEnableSource
    \/ CallDisableSource
    \/ CallEnsureSource
    \/ CallReadSource
    \/ CallRun
    \/ CallEnsureUpdated
    \/ CallInstallPackages
    \/ CallUpgradePackages

(***************************************************************************)
(* cli.py: main and the handlers.                                          *)
(***************************************************************************)
\* Keys of CATALOG in the dictionary's order.
CatalogOrder == <<"recon">>

Say(stream, text) == Ev("print", <<stream, text>>)

\* print(str(exc), file=sys.stderr)
SayError(exc) == Ev("print", <<"stderr">> \o exc.text)

Exit(n) == [Returned EXCEPT !.code = n]

\* The argument vectors parse_args accepts, with root: whether the process
\* runs with euid 0.
Argvs ==
    {[Call(command) EXCEPT
        !.category = category, !.upgrade = upgrade, !.dry = dry_run,
        !.disable = disable, !.only_installed = only_installed, !.root = root] :
     command \in {"list", "install", "repo enable", "repo status", "versions"},
     category \in KeyInputs \cup {""},
     upgrade \in BOOLEAN, dry_run \in BOOLEAN, disable \in BOOLEAN,
     only_installed \in BOOLEAN, root \in BOOLEAN}

ValidArgv(a) ==
    /\ a.op = "install" => a.category # ""
    /\ a.op # "install" => ~a.upgrade
    /\ a.op # "repo enable" => ~a.disable
    /\ a.op # "list" => ~a.only_installed
    /\ a.op \in {"repo enable", "repo status"} => a.category = ""
    /\ a.op \in {"list", "versions"} => ~a.dry

CommandLines == {a \in Argvs : ValidArgv(a)}

\* main: parse_args and the dispatch on args.command
Main ==
    \E args \in CommandLines :
        /\ Begin(args)
        /\ pc' = CASE args.op = "list" -> "list_categories"
                   [] args.op = "install" -> "handle_install"
                   [] args.op = "versions" -> "handle_versions"
                   [] OTHER -> "handle_repo"
        /\ ret' = NoRet
        /\ trace' = <<>>
        /\ versions_before' = NoSnapshot
        /\ UNCHANGED <<file, db, dpkg_ok, mgr_dry>>

\* Mutant: 'repo status' asks for root like 'repo enable' does.
HandleRepo_StatusNeedsRoot ==
    /\ pc = "handle_repo"
    /\ pc' = "done"
    /\ IF ~cur.root
       THEN /\ trace' = trace \o <<Ev("require_root", <<>>),
                                   Say("stderr", PermissionDenied.msg)>>
            /\ ret' = [Exit(1) EXCEPT !.exc = PermissionDenied]
            /\ file' = file
       ELSE IF cur.op = "repo status"
       THEN /\ trace' = trace \o <<Ev("require_root", <<>>), Ev("source_exists", <<>>)>>
            /\ ret' = [Exit(0) EXCEPT !.flag = source_exists(file)]
            /\ file' = file
       ELSE /\ trace' = trace \o <<Ev("require_root", <<>>)>>
                    \o ensure_source(file, cur.dry, ~cur.disable).trace
            /\ ret' = [Exit(0) EXCEPT !.flag = ensure_source(file, cur.dry, ~cur.disable).changed]
            /\ file' = ensure_source(file, cur.dry, ~cur.disable).file
    /\ UNCHANGED <<db, dpkg_ok, mgr_dry, cur, pre, versions_before, prev>>

\* handle_repo
HandleRepo ==
    /\ pc = "handle_repo"
    /\ pc' = "done"
    /\ IF cur.op = "repo status"
       THEN /\ trace' = trace \o <<Ev("source_exists", <<>>),
                                   Say("stdout", IF source_exists(file)
                                                   THEN "Kali repository is enabled."
                                                   ELSE "Kali repository is disabled.")>>
            /\ ret' = [Exit(0) EXCEPT !.flag = source_exists(file)]
            /\ file' = file
       ELSE LET target_state == ~cur.disable
                guard == require_root(cur.root)
                e == ensure_source(file, cur.dry, target_state)
            IN  IF guard.raised
                THEN /\ trace' = trace \o <<Ev("require_root", <<>>),
                                            Say("stderr", guard.exc.msg)>>
                     /\ ret' = [Exit(1) EXCEPT !.exc = guard.exc]
                     /\ file' = file
                ELSE /\ trace' = trace \o <<Ev("require_root", <<>>)>> \o e.trace
                            \o <<Say("stdout",
                                    IF e.changed
                                    THEN (IF target_state THEN "Kali repository enabled."
                                          ELSE "Kali repository disabled.")
                                    ELSE (IF target_state
                                          THEN "Kali repository already enabled."
                                          ELSE "Kali repository already disabled."))>>
                     /\ ret' = [Exit(0) EXCEPT !.flag = e.changed]
                     /\ file' = e.file
    /\ UNCHANGED <<db, dpkg_ok, mgr_dry, cur, pre, versions_before, prev>>

UpdatePolicy(tool) == IF tool.auto_updates THEN "automatic" ELSE "manual"

\* resolve_tool_version over the tools of a category, in order, stopping at
\* the first exception: [raised, exc, rows, trace]
ResolveTools(key, tools, d, have_dpkg) ==
    Value({[raised |-> FirstRaised(rs) # 0, exc |-> ExcOf(rs), trace |-> TraceOf(rs),
            rows |-> IF FirstRaised(rs) # 0 THEN <<>>
                     ELSE [i \in 1..Len(tools) |->
                              [category |-> key, tool |-> tools[i].name, previous |-> None,
                               version |-> rs[i].val, updates |-> UpdatePolicy(tools[i])]]]
           : rs \in {[i \in 1..Len(tools) |->
                        resolve_tool_version(tools[i], d, have_dpkg)]}})

ResolveCategories(keys, d, have_dpkg) ==
    Value({[raised |-> FirstRaised(rs) # 0, exc |-> ExcOf(rs), trace |-> TraceOf(rs),
            rows |-> IF FirstRaised(rs) # 0 THEN <<>>
                     ELSE Flatten([i \in 1..Len(rs) |-> rs[i].rows])]
           : rs \in {[i \in 1..Len(keys) |->
                        ResolveTools(keys[i], CATALOG[keys[i]].tools, d, have_dpkg)]}})

RECURSIVE InstalledRows(_)
\* the rows whose version is not None
InstalledRows(rows) ==
    IF rows = <<>> THEN <<>>
    ELSE IF Head(rows).version = None THEN InstalledRows(Tail(rows))
    ELSE <<Head(rows)>> \o InstalledRows(Tail(rows))

\* The rows a read-only listing shows, or the exception that ends it.
Listing(category, only_installed, d, have_dpkg) ==
    Value({[raised |-> r.raised, exc |-> r.exc, trace |-> r.trace,
            rows |-> IF only_installed THEN InstalledRows(r.rows) ELSE r.rows]
           : r \in {ResolveCategories(
                        IF category # "" THEN <<get_category(category).key>>
                        ELSE CatalogOrder, d, have_dpkg)}})

\* list_categories
ListCategories ==
    /\ pc = "list_categories"
    /\ pc' = "done"
    /\ IF cur.category # "" /\ get_category(cur.category).raised
       THEN /\ trace' = trace \o <<Ev("get_category", <<cur.category>>),
                                   SayError(get_category(cur.category).exc)>>
            /\ ret' = Exit(1)
       ELSE \E r \in {Listing(cur.category, cur.only_installed, db, dpkg_ok)} :
                /\ trace' = trace
                        \o (IF cur.category # "" THEN <<Ev("get_category", <<cur.category>>)>>
                            ELSE <<>>)
                        \o r.trace
                /\ ret' = IF r.raised THEN Raised(r.exc)
                          ELSE [Exit(0) EXCEPT !.report = r.rows]
    /\ UNCHANGED <<file, db, dpkg_ok, mgr_dry, cur, pre, versions_before, prev>>

\* handle_versions
HandleVersions ==
    /\ pc = "handle_versions"
    /\ pc' = "done"
    /\ IF cur.category # "" /\ get_category(cur.category).raised
       THEN /\ trace' = trace \o <<Ev("get_category", <<cur.category>>),
                                   SayError(get_category(cur.category).exc)>>
            /\ ret' = Exit(1)
       ELSE \E r \in {Listing(cur.category, FALSE, db, dpkg_ok)} :
                /\ trace' = trace
                        \o (IF cur.category # "" THEN <<Ev("get_category", <<cur.category>>)>>
                            ELSE <<>>)
                        \o r.trace
                /\ ret' = IF r.raised THEN Raised(r.exc)
                          ELSE [Exit(0) EXCEPT !.report = r.rows]
    /\ UNCHANGED <<file, db, dpkg_ok, mgr_dry, cur, pre, versions_before, prev>>

\* handle_install, lines 362 and 371-380: what the handler derives from the
\* category.
\* Mutant: the packages in catalog order, not sorted.
InstallPackages_CatalogOrder(category) ==
    Flatten([i \in 1..Len(category.tools) |-> category.tools[i].packages])

InstallPackages(category) == SortedNames(ToolPackages(category))

\* versions_before over packages (a sorted list), or the exception
SnapshotOf(packages, d, have_dpkg) ==
    Value({[raised |-> q.raised, exc |-> q.exc, trace |-> q.trace,
            snapshot |-> IF q.raised THEN NoSnapshot
                         ELSE [p \in Range(packages) |->
                                  q.vals[CHOOSE i \in DOMAIN packages : packages[i] = p]]]
           : q \in {QueryAll(packages, d, have_dpkg)}})

\* prev_display of one tool: the non-None versions of its packages in the
\* snapshot, sorted and joined; None stands for "not installed".
PrevDisplay(tool, snapshot) ==
    Value({IF joined = <<>> THEN None ELSE Some(joined)
           : joined \in {Join(SortedTexts(
                            {snapshot[p][1] : p \in {q \in Range(tool.packages) :
                                                       snapshot[q] # None}}))}})

\* the loop of lines 371-380: [raised, exc, rows, trace]
ReportTools(key, tools, snapshot, d, have_dpkg) ==
    Value({[raised |-> FirstRaised(vs) # 0, exc |-> ExcOf(vs),
            trace |-> Flatten([i \in 1..(IF FirstRaised(vs) = 0 THEN Len(vs)
                                         ELSE FirstRaised(vs)) |->
                                  IF vs[i].raised THEN vs[i].trace
                                  ELSE vs[i].trace \o <<Say("stdout", tools[i].name)>>]),
            rows |-> [i \in 1..(IF FirstRaised(vs) = 0 THEN Len(tools)
                                ELSE FirstRaised(vs) - 1) |->
                         [category |-> key, tool |-> tools[i].name,
                          previous |-> PrevDisplay(tools[i], snapshot),
                          version |-> vs[i].val, updates |-> UpdatePolicy(tools[i])]]]
           : vs \in {[i \in 1..Len(tools) |->
                        resolve_tool_version(tools[i], d, have_dpkg)]}})

\* Mutant: the privilege is checked before the category is looked up.
InstallLookup_AfterRootCheck ==
    /\ pc = "handle_install"
    /\ IF require_root(cur.root).raised
       THEN /\ trace' = trace \o <<Ev("require_root", <<>>),
                                   Say("stderr", PermissionDenied.msg)>>
            /\ ret' = [Exit(1) EXCEPT !.exc = PermissionDenied]
            /\ pc' = "done"
       ELSE IF get_category(cur.category).raised
       THEN /\ trace' = trace \o <<Ev("require_root", <<>>),
                                   Ev("get_category", <<cur.category>>),
                                   SayError(get_category(cur.category).exc)>>
            /\ ret' = Exit(1)
            /\ pc' = "done"
       ELSE /\ trace' = trace \o <<Ev("get_category", <<cur.category>>)>>
            /\ ret' = ret
            /\ pc' = "install_check"
    /\ UNCHANGED <<file, db, dpkg_ok, mgr_dry, cur, pre, versions_before, prev>>

\* handle_install, lines 344-348: the category lookup
InstallLookup ==
    /\ pc = "handle_install"
    /\ IF get_category(cur.category).raised
       THEN /\ trace' = trace \o <<Ev("get_category", <<cur.category>>),
                                   SayError(get_category(cur.category).exc)>>
            /\ ret' = Exit(1)
            /\ pc' = "done"
       ELSE /\ trace' = trace \o <<Ev("get_category", <<cur.category>>)>>
            /\ ret' = ret
            /\ pc' = "install_check"
    /\ UNCHANGED <<file, db, dpkg_ok, mgr_dry, cur, pre, versions_before, prev>>

\* Mutant: the record's presence is not checked.
InstallCheck_SkipsSourceCheck ==
    /\ pc = "install_check"
    /\ IF require_root(cur.root).raised
       THEN /\ trace' = trace \o <<Ev("require_root", <<>>),
                                   Say("stderr", PermissionDenied.msg)>>
            /\ ret' = [Exit(1) EXCEPT !.exc = PermissionDenied]
            /\ pc' = "done"
       ELSE /\ trace' = trace \o <<Ev("require_root", <<>>), Ev("source_exists", <<>>)>>
            /\ ret' = ret
            /\ pc' = "install_snapshot"
    /\ UNCHANGED <<file, db, dpkg_ok, mgr_dry, cur, pre, versions_before, prev>>

\* Mutant: an absent record is written on the caller's behalf.
InstallCheck_EnablesSource ==
    /\ pc = "install_check"
    /\ IF require_root(cur.root).raised
       THEN /\ trace' = trace \o <<Ev("require_root", <<>>),
                                   Say("stderr", PermissionDenied.msg)>>
            /\ ret' = [Exit(1) EXCEPT !.exc = PermissionDenied]
            /\ pc' = "done"
            /\ file' = file
       ELSE /\ trace' = trace \o <<Ev("require_root", <<>>)>>
                    \o ensure_source(file, cur.dry, TRUE).trace
            /\ ret' = ret
            /\ pc' = "install_snapshot"
            /\ file' = ensure_source(file, cur.dry, TRUE).file
    /\ UNCHANGED <<db, dpkg_ok, mgr_dry, cur, pre, versions_before, prev>>

\* handle_install, lines 353-360: require_root, then source_exists
InstallCheck ==
    /\ pc = "install_check"
    /\ LET guard == require_root(cur.root)
       IN  IF guard.raised
           THEN /\ trace' = trace \o <<Ev("require_root", <<>>),
                                       Say("stderr", guard.exc.msg)>>
                /\ ret' = [Exit(1) EXCEPT !.exc = guard.exc]
                /\ pc' = "done"
           ELSE IF ~source_exists(file)
           THEN /\ trace' = trace \o <<Ev("require_root", <<>>), Ev("source_exists", <<>>),
                                       Say("stderr", "Kali repository is not enabled.")>>
                /\ ret' = Exit(2)
                /\ pc' = "done"
           ELSE /\ trace' = trace \o <<Ev("require_root", <<>>), Ev("source_exists", <<>>)>>
                /\ ret' = ret
                /\ pc' = "install_snapshot"
    /\ UNCHANGED <<file, db, dpkg_ok, mgr_dry, cur, pre, versions_before, prev>>

\* handle_install, lines 362-363: packages and versions_before
InstallSnapshot ==
    /\ pc = "install_snapshot"
    /\ \E s \in {SnapshotOf(InstallPackages(get_category(cur.category).category),
                            db, dpkg_ok)} :
           /\ trace' = trace \o s.trace
           /\ versions_before' = s.snapshot
           /\ ret' = IF s.raised THEN Raised(s.exc) ELSE ret
           /\ pc' = IF s.raised THEN "done" ELSE "install_update"
    /\ UNCHANGED <<file, db, dpkg_ok, mgr_dry, cur, pre, prev>>

\* Mutant: a failed refresh is ignored (run called with check = False).
InstallUpdate_SwallowsFailure ==
    /\ pc = "install_update"
    /\ \E o \in run(cur.dry, UpdateCmd, FALSE, db) :
        /\ trace' = trace \o o.trace
        /\ db' = o.db
        /\ ret' = ret
        /\ pc' = "install_apply"
    /\ UNCHANGED <<file, dpkg_ok, mgr_dry, cur, pre, versions_before, prev>>

\* handle_install, line 365: runner.ensure_updated()
InstallUpdate ==
    /\ pc = "install_update"
    /\ \E o \in ensure_updated(cur.dry, db) :
        /\ trace' = trace \o o.trace
        /\ db' = o.db
        /\ ret' = IF o.raised THEN Raised(o.exc) ELSE ret
        /\ pc' = IF o.raised THEN "done" ELSE "install_apply"
    /\ UNCHANGED <<file, dpkg_ok, mgr_dry, cur, pre, versions_before, prev>>

\* Mutant: the runner is built without the --dry-run flag.
InstallApply_IgnoresDryRun ==
    /\ pc = "install_apply"
    /\ \E packages \in {InstallPackages(get_category(cur.category).category)} :
        \E o \in (IF cur.upgrade THEN upgrade_packages(FALSE, packages, db)
                  ELSE install_packages(FALSE, packages, db)) :
            /\ trace' = trace \o o.trace
            /\ db' = o.db
            /\ ret' = IF o.raised THEN Raised(o.exc) ELSE ret
            /\ pc' = IF o.raised THEN "done" ELSE "install_report"
    /\ UNCHANGED <<file, dpkg_ok, mgr_dry, cur, pre, versions_before, prev>>

\* handle_install, lines 366-369: upgrade_packages or install_packages
InstallApply ==
    /\ pc = "install_apply"
    /\ \E packages \in {InstallPackages(get_category(cur.category).category)} :
        \E o \in (IF cur.upgrade THEN upgrade_packages(cur.dry, packages, db)
                  ELSE install_packages(cur.dry, packages, db)) :
            /\ trace' = trace \o o.trace
            /\ db' = o.db
            /\ ret' = IF o.raised THEN Raised(o.exc) ELSE ret
            /\ pc' = IF o.raised THEN "done" ELSE "install_report"
    /\ UNCHANGED <<file, dpkg_ok, mgr_dry, cur, pre, versions_before, prev>>

\* Mutant: the previous versions are looked up when the report is made.
InstallReport_SnapshotAfter ==
    /\ pc = "install_report"
    /\ \E found \in {get_category(cur.category)} :
        \E r \in {ReportTools(found.key, found.category.tools,
                              SnapshotOf(InstallPackages(found.category), db, dpkg_ok).snapshot,
                              db, dpkg_ok)} :
           /\ trace' = trace \o r.trace
           /\ ret' = IF r.raised THEN Raised(r.exc) ELSE [Exit(0) EXCEPT !.report = r.rows]
    /\ pc' = "done"
    /\ UNCHANGED <<file, db, dpkg_ok, mgr_dry, cur, pre, versions_before, prev>>

\* handle_install, lines 371-381: the report, one line per tool
InstallReport ==
    /\ pc = "install_report"
    /\ \E found \in {get_category(cur.category)} :
        \E r \in {ReportTools(found.key, found.category.tools, versions_before,
                              db, dpkg_ok)} :
           /\ trace' = trace \o r.trace
           /\ ret' = IF r.raised THEN Raised(r.exc) ELSE [Exit(0) EXCEPT !.report = r.rows]
    /\ pc' = "done"
    /\ UNCHANGED <<file, db, dpkg_ok, mgr_dry, cur, pre, versions_before, prev>>

HandleInstall ==
    \/ InstallLookup
    \/ InstallCheck
    \/ InstallSnapshot
    \/ InstallUpdate
    \/ InstallApply
    \/ InstallReport

Next ==
    \/ Library
    \/ Main
    \/ HandleRepo
    \/ ListCategories
    \/ HandleVersions
    \/ HandleInstall
    \/ Return

Spec == Init /\ [][Next]_vars

(***************************************************************************)
(* The version queries on their own: get_installed_version and             *)
(* resolve_tool_version over every package list up to MaxPackages names,   *)
(* on hosts whose dpkg database also holds the entries of QueryEntries.    *)
(***************************************************************************)
PackageSeqs == UNION {[1..n -> Packages] : n \in 0..MaxPackages}

InitQuery ==
    /\ file = "absent"
    /\ db \in [Packages -> QueryEntries]
    /\ dpkg_ok \in BOOLEAN
    /\ mgr_dry = FALSE
    /\ pc = "idle"
    /\ cur = Call("none")
    /\ ret = NoRet
    /\ pre = [file |-> file, db |-> db]
    /\ trace = <<>>
    /\ versions_before = NoSnapshot
    /\ prev = Forgotten

CallGetInstalledVersion ==
    \E package \in Packages :
        \E r \in {get_installed_version(package, db, dpkg_ok)} :
            /\ Begin([Call("get_installed_version") EXCEPT !.command = <<package>>])
            /\ trace' = r.trace
            /\ ret' = IF r.raised THEN Raised(r.exc) ELSE [Returned EXCEPT !.val = r.val]
            /\ pc' = "done"
            /\ UNCHANGED <<file, db, dpkg_ok, mgr_dry, versions_before>>

CallResolveToolVersion ==
    \E packages \in PackageSeqs :
        \E r \in {resolve_tool_version(Tool("tool", packages, TRUE), db, dpkg_ok)} :
            /\ Begin([Call("resolve_tool_version") EXCEPT !.command = packages])
            /\ trace' = r.trace
            /\ ret' = IF r.raised THEN Raised(r.exc) ELSE [Returned EXCEPT !.val = r.val]
            /\ pc' = "done"
            /\ UNCHANGED <<file, db, dpkg_ok, mgr_dry, versions_before>>

NextQuery ==
    \/ CallGetInstalledVersion
    \/ CallResolveToolVersion
    \/ Return

SpecQuery == InitQuery /\ [][NextQuery]_vars

(***************************************************************************)
(* The manager next to another process that creates, edits and removes the *)
(* record. Each file system call of the manager is a step of its own, so   *)
(* the other process can act between any two of them.                      *)
(***************************************************************************)
FileNotFoundError ==
    [type |-> "FileNotFoundError", msg |-> "", command |-> <<>>, detail |-> <<>>]

\* What KALI_SOURCE_FILE.exists() sees.
Seen(f) == IF source_exists(f) THEN "present" ELSE "absent"

InitShared ==
    /\ file \in FileStates
    /\ db = [p \in Packages |-> NotInstalled]
    /\ dpkg_ok = TRUE
    /\ mgr_dry \in BOOLEAN
    /\ pc = "idle"
    /\ cur = Call("none")
    /\ ret = NoRet
    /\ pre = [file |-> file, db |-> db]
    /\ trace = <<>>
    /\ versions_before = NoSnapshot
    /\ prev = Forgotten

\* A method of the manager is entered.
SharedCall ==
    \E name \in {"source_exists", "enable_source", "disable_source", "ensure_source"},
       enable \in BOOLEAN :
        /\ name # "ensure_source" => ~enable
        /\ Begin([Call(name) EXCEPT !.dry = mgr_dry, !.want = enable])
        /\ pc' = name
        /\ ret' = NoRet
        /\ trace' = <<>>
        /\ UNCHANGED <<file, db, dpkg_ok, mgr_dry, versions_before>>

\* What the method entered returns once enable_source / disable_source is
\* over: None, or True from ensure_source.
AfterChange == [Returned EXCEPT !.flag = (cur.op = "ensure_source")]

\* source_exists(), line 73
SourceExistsStep ==
    /\ pc = "source_exists"
    /\ trace' = trace \o <<Ev("source_exists", <<Seen(file)>>)>>
    /\ ret' = [Returned EXCEPT !.flag = source_exists(file)]
    /\ pc' = "done"
    /\ UNCHANGED <<file, db, dpkg_ok, mgr_dry, cur, pre, versions_before, prev>>

\* ensure_source, lines 100-107: the look and the decision
EnsureLook ==
    /\ pc = "ensure_source"
    /\ trace' = trace \o <<Ev("source_exists", <<Seen(file)>>)>>
    /\ IF cur.want /\ ~source_exists(file)
       THEN pc' = "enable_source" /\ ret' = ret
       ELSE IF ~cur.want /\ source_exists(file)
       THEN pc' = "disable_source" /\ ret' = ret
       ELSE pc' = "done" /\ ret' = [Returned EXCEPT !.flag = FALSE]
    /\ UNCHANGED <<file, db, dpkg_ok, mgr_dry, cur, pre, versions_before, prev>>

\* enable_source, lines 81-85
EnableStep ==
    /\ pc = "enable_source"
    /\ IF cur.dry
       THEN file' = file /\ trace' = trace
       ELSE /\ file' = "snippet"
            /\ trace' = trace \o <<Ev("mkdir", <<>>), Ev("write_text", <<>>)>>
    /\ ret' = AfterChange
    /\ pc' = "done"
    /\ UNCHANGED <<db, dpkg_ok, mgr_dry, cur, pre, versions_before, prev>>

\* disable_source, lines 88-91: the dry-run test and the look
DisableLook ==
    /\ pc = "disable_source"
    /\ IF cur.dry
       THEN trace' = trace /\ ret' = AfterChange /\ pc' = "done"
       ELSE /\ trace' = trace \o <<Ev("source_exists", <<Seen(file)>>)>>
            /\ IF source_exists(file)
               THEN ret' = ret /\ pc' = "unlink"
               ELSE ret' = AfterChange /\ pc' = "done"
    /\ UNCHANGED <<file, db, dpkg_ok, mgr_dry, cur, pre, versions_before, prev>>

\* disable_source, line 92: KALI_SOURCE_FILE.unlink()
Unlink ==
    /\ pc = "unlink"
    /\ IF source_exists(file)
       THEN /\ file' = "absent"
            /\ trace' = trace \o <<Ev("unlink", <<>>)>>
            /\ ret' = AfterChange
       ELSE /\ file' = file
            /\ trace' = trace \o <<Ev("unlink", <<"FileNotFoundError">>)>>
            /\ ret' = Raised(FileNotFoundError)
    /\ pc' = "done"
    /\ UNCHANGED <<db, dpkg_ok, mgr_dry, cur, pre, versions_before, prev>>

\* Another process writes the record (with text of its own) or removes it.
External ==
    /\ pc # "idle"
    /\ Cardinality({i \in DOMAIN trace : trace[i].ev = "external"}) < MaxExternal
    /\ \E f \in {"absent", "other"} \ {file} :
        /\ file' = f
        /\ trace' = trace \o <<Ev("external", <<f>>)>>
    /\ UNCHANGED <<db, dpkg_ok, mgr_dry, pc, cur, ret, pre, versions_before, prev>>

NextShared ==
    \/ SharedCall
    \/ SourceExistsStep
    \/ EnsureLook
    \/ EnableStep
    \/ DisableLook
    \/ Unlink
    \/ External
    \/ Return

SpecShared == InitShared /\ [][NextShared]_vars

(***************************************************************************)
(* Properties.                                                             *)
(***************************************************************************)
Events(kinds) == {i \in DOMAIN trace : trace[i].ev \in kinds}

\* Processes that the operation started through apt-get.
AptSpawns == {i \in Events({"spawn"}) : IsAptCommand(trace[i].args)}

SourceOps == {"enable_source", "disable_source", "ensure_source"}

RunnerOps == {"run", "ensure_updated", "install_packages", "upgrade_packages"}

\* The command a runner operation was asked to run.
CommandOf(c) ==
    CASE c.op = "run" -> c.command
      [] c.op = "ensure_updated" -> UpdateCmd
      [] c.op = "install_packages" -> InstallPrefix \o c.command
      [] c.op = "upgrade_packages" -> UpgradePrefix \o c.command

\* C1: in dry-run mode nothing is mutated. enable_source, disable_source and
\* ensure_source leave the record as it was (so source_exists() is
\* unchanged), and run, ensure_updated, install_packages and
\* upgrade_packages spawn no process, leave the package database alone and
\* return a result for the given command with exit code 0 and empty stdout
\* and stderr.
C1_DryRunMutatesNothing ==
    (pc = "done" /\ cur.dry) =>
        /\ cur.op \in SourceOps =>
            /\ file = pre.file
            /\ source_exists(file) = source_exists(pre.file)
            /\ Events({"mkdir", "write_text", "unlink"}) = {}
        /\ cur.op \in RunnerOps =>
            /\ Events({"spawn"}) = {}
            /\ db = pre.db
            /\ ret.kind = "return"
            /\ ret.result = AptCommandResult(CommandOf(cur), 0, <<>>, <<>>)

C1_Witness ==
    /\ pc = "done"
    /\ cur.dry
    /\ cur.op = "enable_source"
    /\ cur.dry_arg = "True"
    /\ ~mgr_dry
    /\ ~source_exists(pre.file)

\* Two successive calls of one operation that sets the record's target
\* state, the first from a state where the record disagrees with the target.
TwiceInARow(name) ==
    /\ pc = "done"
    /\ cur.op = name
    /\ prev.op = name
    /\ prev.want = (IF name = "repo enable" THEN ~cur.disable ELSE cur.want)
    /\ prev.existed # prev.want

\* C2 as claimed: for any manager, ensure_source(x) twice in a row from a
\* disagreeing record returns changed = true, then changed = false; and
\* 'repo enable' twice on an absent record reports 'enabled', then 'already
\* enabled'.
C2_AsClaimed ==
    /\ TwiceInARow("ensure_source") => (prev.flag /\ ~ret.flag)
    /\ (TwiceInARow("repo enable") /\ prev.want) =>
            (prev.flag /\ ret.kind = "return" /\ ret.code = 0 /\ ~ret.flag)

\* C2 (amended): for a manager whose runner is not in dry-run mode,
\* ensure_source(x) twice in a row from a disagreeing record returns
\* changed = true, then changed = false, for x = true and for x = false;
\* and 'repo enable' run twice by a privileged user without --dry-run on an
\* absent record reports 'enabled', then 'already enabled'.
C2_EnsureIdempotent ==
    /\ (TwiceInARow("ensure_source") /\ ~prev.dry /\ ~cur.dry) => (prev.flag /\ ~ret.flag)
    /\ (TwiceInARow("repo enable") /\ prev.want
            /\ prev.root /\ cur.root /\ ~prev.dry /\ ~cur.dry) =>
            /\ prev.flag
            /\ ret.kind = "return" /\ ret.code = 0 /\ ~ret.flag
            /\ trace[Len(trace)] = Say("stdout", "Kali repository already enabled.")

C2_Witness ==
    /\ TwiceInARow("ensure_source")
    /\ ~cur.dry
    /\ ~cur.want
    /\ prev.flag
    /\ ~ret.flag

\* An operation that called ensure_source, with the target it asked for.
CalledEnsure == cur.op = "ensure_source" \/ (cur.op = "repo enable" /\ cur.root)

Wanted == IF cur.op = "repo enable" THEN ~cur.disable ELSE cur.want

\* C3 as claimed: ensure_source returns true exactly when the record's
\* presence after the call differs from its presence before, and calls
\* enable_source / disable_source only when the target disagrees with
\* source_exists().
C3_AsClaimed ==
    (pc = "done" /\ CalledEnsure) =>
        /\ ret.flag <=> (source_exists(file) # source_exists(pre.file))
        /\ Events({"enable_source", "disable_source"}) # {} =>
                Wanted # source_exists(pre.file)

\* C3 (amended): ensure_source returns true exactly when the target
\* disagrees with source_exists() at the call (a change was required); for
\* a runner that is not in dry-run mode that is exactly when the record's
\* presence after the call differs from its presence before, while in
\* dry-run mode the presence never changes. It calls enable_source only
\* when the record is wanted and absent and disable_source only when it is
\* unwanted and present, and nothing else.
C3_EnsureReportsChange ==
    (pc = "done" /\ CalledEnsure) =>
        /\ ret.flag <=> (Wanted # source_exists(pre.file))
        /\ ~cur.dry => (ret.flag <=> (source_exists(file) # source_exists(pre.file)))
        /\ ~cur.dry => source_exists(file) = Wanted
        /\ cur.dry => file = pre.file
        /\ Events({"enable_source"}) # {} <=> (Wanted /\ ~source_exists(pre.file))
        /\ Events({"disable_source"}) # {} <=> (~Wanted /\ source_exists(pre.file))

C3_Witness ==
    /\ pc = "done"
    /\ cur.op = "ensure_source"
    /\ ~cur.dry
    /\ ~cur.want
    /\ ret.flag
    /\ source_exists(pre.file)
    /\ ~source_exists(file)

CliOps == {"list", "install", "repo enable", "repo status", "versions"}

ReadOnlyOps == {"list", "repo status", "versions"}

InstallKnown == cur.op = "install" /\ StripLower(cur.category) \in CatalogKeys

RecordEvents == {"mkdir", "write_text", "unlink", "enable_source", "disable_source"}

\* The version a query of package p reports in database d (None: not
\* installed).
VersionIn(d, p) == IF d[p].status = "installed" THEN Some(d[p].version) ELSE None

\* C4: for a privileged caller and a known group, install (with or without
\* --upgrade) on an absent record stops at the source check: it returns
\* exit code 2 with the "not enabled" message, never gets past the check,
\* runs no command at all and leaves every package's installed version as
\* it was.
C4_InstallNeedsRepository ==
    (InstallKnown /\ cur.root /\ ~source_exists(pre.file)) =>
        /\ pc \in {"handle_install", "install_check", "done"}
        /\ Events({"run", "spawn", "spawn_failed", "exit"}) = {}
        /\ db = pre.db
        /\ \A p \in Packages : VersionIn(db, p) = VersionIn(pre.db, p)
        /\ pc = "done" =>
            /\ ret.kind = "return"
            /\ ret.code = 2
            /\ trace[Len(trace)] = Say("stderr", "Kali repository is not enabled.")

C4_Witness ==
    /\ pc = "done"
    /\ InstallKnown
    /\ cur.root
    /\ cur.upgrade
    /\ ~cur.dry
    /\ ~source_exists(pre.file)
    /\ ret.code = 2

C6_ReadOnlyNeedsNoPrivilege ==
    (pc = "done" /\ cur.op \in ReadOnlyOps) =>
        /\ file = pre.file
        /\ db = pre.db
        /\ Events(RecordEvents \cup {"require_root", "run"}) = {}
        /\ AptSpawns = {}
        /\ ret.exc # PermissionDenied
        /\ cur.op = "repo status" =>
            /\ ret.kind = "return" /\ ret.code = 0
            /\ ret.flag = source_exists(file)
        /\ cur.op \in {"list", "versions"} =>
            IF cur.category # "" /\ StripLower(cur.category) \notin CatalogKeys
            THEN ret.kind = "return" /\ ret.code = 1
            ELSE IF ~dpkg_ok
            THEN ret.kind = "raise" /\ ret.exc.msg = "dpkg-query command not found"
            ELSE /\ ret.kind = "return" /\ ret.code = 0
                 /\ ret.report = Listing(cur.category, cur.only_installed, db, TRUE).rows
                 /\ \A i \in DOMAIN ret.report :
                        \E t \in Range(CATALOG[ret.report[i].category].tools) :
                            /\ t.name = ret.report[i].tool
                            /\ \E p \in Range(t.packages) :
                                   ret.report[i].version \in {None, VersionIn(db, p)}
                            /\ ret.report[i].version = None =>
                                   \A p \in Range(t.packages) : VersionIn(db, p) = None

C6_Witness ==
    /\ pc = "done"
    /\ cur.op = "versions"
    /\ ~cur.root
    /\ ret.kind = "return"
    /\ ret.code = 0
    /\ \E i \in DOMAIN ret.report : ret.report[i].version # None

QueryEvents(pkgs) == [i \in 1..Len(pkgs) |-> Ev("spawn", QueryCmd(pkgs[i]))]

\* What a successful runner call leaves in the trace.
RunEvents(dry, cmd) ==
    IF dry THEN <<Ev("run", cmd)>>
    ELSE <<Ev("run", cmd), Ev("spawn", cmd), Ev("exit", <<"zero">>)>>

ReportEvents(tools) ==
    Flatten([i \in 1..Len(tools) |->
                QueryEvents(tools[i].packages) \o <<Say("stdout", tools[i].name)>>])

StrictlySorted(pkgs) ==
    \A i \in 1..(Len(pkgs) - 1) : NameRank(pkgs[i]) < NameRank(pkgs[i + 1])

\* The steps of a complete install over the package list pkgs, in order.
InstallSteps(c, pkgs, tools) ==
    <<Ev("get_category", <<c.category>>), Ev("require_root", <<>>),
      Ev("source_exists", <<>>)>>
        \o QueryEvents(pkgs)
        \o RunEvents(c.dry, UpdateCmd)
        \o RunEvents(c.dry, (IF c.upgrade THEN UpgradePrefix ELSE InstallPrefix) \o pkgs)
        \o ReportEvents(tools)

\* C7: an install that reaches the end has done exactly these steps, in
\* this order: the privilege check, the source_exists check, one version
\* query per distinct package of the group, refresh-index once, then one
\* install-packages (without --upgrade) or one upgrade-packages (with it)
\* whose package arguments are sorted, free of duplicates and exactly the
\* packages of the group's tools, then one report line per tool. And at no
\* point of an install has a command been run before both checks passed.
C7_InstallOrder ==
    /\ (pc = "done" /\ cur.op = "install" /\ ret.kind = "return" /\ ret.code = 0) =>
        LET tools == CATALOG[StripLower(cur.category)].tools
            runs  == Events({"run"})
            last  == CHOOSE i \in runs : \A j \in runs : j <= i
            prefix == IF cur.upgrade THEN UpgradePrefix ELSE InstallPrefix
            pkgs  == SubSeq(trace[last].args, Len(prefix) + 1, Len(trace[last].args))
        IN  /\ Cardinality(runs) = 2
            /\ IsPrefix(prefix, trace[last].args)
            /\ ~cur.upgrade => ~IsPrefix(UpgradePrefix, trace[last].args)
            /\ StrictlySorted(pkgs)
            /\ Range(pkgs) = ToolPackages(CATALOG[StripLower(cur.category)])
            /\ trace = InstallSteps(cur, pkgs, tools)
            /\ Len(ret.report) = Len(tools)
    /\ cur.op = "install" =>
        \A i \in Events({"run", "spawn", "spawn_failed"}) :
            /\ cur.root
            /\ source_exists(pre.file)
            /\ \E j \in Events({"require_root"}), k \in Events({"source_exists"}) :
                   j < k /\ k < i

C7_Witness ==
    /\ pc = "done"
    /\ cur.op = "install"
    /\ cur.upgrade
    /\ ~cur.dry
    /\ ret.kind = "return"
    /\ ret.code = 0
    /\ db # pre.db

\* C8: in an install, a command that exits non-zero is the last thing that
\* happens: the workflow is over, the command-failed error of that command
\* (with its trimmed stderr) is what comes out of it, no report line has
\* been produced, and nothing has been run twice; after a failed
\* refresh-index no install or upgrade command has been dispatched.
C8_FailureHalts ==
    cur.op = "install" =>
        \A i \in Events({"exit"}) :
            trace[i].args = <<"non-zero">> =>
                /\ i = Len(trace)
                /\ pc = "done"
                /\ ret.kind = "raise"
                /\ ret.exc = AptError("command failed", trace[i - 1].args,
                                      <<"E", ":", " ", "1">>)
                /\ ret.report = <<>>
                /\ Events({"print"}) = {}
                /\ Cardinality({j \in Events({"run"}) : trace[j].args = UpdateCmd}) = 1
                /\ Cardinality({j \in Events({"run"}) : trace[j].args # UpdateCmd})
                       = (IF trace[i - 1].args = UpdateCmd THEN 0 ELSE 1)
                /\ Cardinality(AptSpawns) = Cardinality(Events({"run"}))

C8_Witness ==
    /\ pc = "done"
    /\ cur.op = "install"
    /\ ret.kind = "raise"
    /\ ret.exc.command = UpdateCmd
    /\ trace[Len(trace)] = Ev("exit", <<"non-zero">>)

\* C9 as claimed: every run of main returns an exit code, 0, 1 or 2; it
\* returns 1 when refresh-index, install or upgrade exits non-zero during
\* an install or when dpkg-query is missing, and 0 only when the requested
\* operation completed.
C9_AsClaimed ==
    (pc = "done" /\ cur.op \in CliOps) =>
        /\ ret.kind = "return"
        /\ ret.code \in {0, 1, 2}
        /\ (Events({"spawn_failed"}) # {}
                \/ \E i \in Events({"exit"}) : trace[i].args = <<"non-zero">>) =>
            ret.code = 1

\* C10: an install never touches the repository source record: at every
\* point of the workflow, whatever the group, --upgrade, --dry-run and the
\* outcome, the record is what it was when the install started, and neither
\* enable_source nor disable_source has been called.
C10_InstallLeavesRecord ==
    cur.op = "install" =>
        /\ file = pre.file
        /\ source_exists(file) = source_exists(pre.file)
        /\ Events(RecordEvents) = {}

C10_Witness ==
    /\ pc = "done"
    /\ cur.op = "install"
    /\ ~cur.dry
    /\ ret.kind = "raise"
    /\ db # pre.db
    /\ file = "other"

\* The check argument a runner operation passes to run.
CheckOf(c) == IF c.op = "run" THEN c.check ELSE TRUE

\* C11: AptRunner.run outside dry-run mode (directly, or through
\* ensure_updated, install_packages, upgrade_packages, which pass check =
\* True). If check is true and the process exits non-zero, the call raises
\* the command-failed AptError carrying the command and the stripped stderr.
\* In every other case it returns a result holding the given command and
\* the exit code, stdout and stderr of the process that ran. For every
\* result produced, in dry-run mode too, succeeded holds exactly when the
\* exit code is 0.
C11_RunContract ==
    (pc = "done" /\ cur.op \in RunnerOps) =>
        /\ ~cur.dry =>
            /\ Cardinality(Events({"spawn"})) = 1
            /\ Cardinality(Events({"exit"})) = 1
            /\ \E completed \in ProcOutcomes(CommandOf(cur), pre.db) :
                /\ db = completed.db
                /\ trace[Len(trace)].args = <<"zero">> <=> completed.returncode = 0
                /\ IF CheckOf(cur) /\ completed.returncode # 0
                   THEN /\ ret.kind = "raise"
                        /\ ret.exc.type = "AptError"
                        /\ ret.exc.command = CommandOf(cur)
                        /\ ret.exc.detail = Strip(completed.stderr)
                        /\ ret.exc.detail = <<"E", ":", " ", "1">>
                   ELSE /\ ret.kind = "return"
                        /\ ret.result.command = CommandOf(cur)
                        /\ ret.result.returncode = completed.returncode
                        /\ ret.result.stdout = completed.stdout
                        /\ ret.result.stderr = completed.stderr
        /\ (~cur.dry /\ ret.kind = "return") =>
            (succeeded(ret.result) <=> trace[Len(trace)].args = <<"zero">>)
        /\ ret.kind = "return" => (succeeded(ret.result) <=> ret.result.returncode = 0)
        /\ ret.kind = "raise" => (CheckOf(cur) /\ trace[Len(trace)].args = <<"non-zero">>)

C11_Witness ==
    /\ pc = "done"
    /\ cur.op = "run"
    /\ ~cur.dry
    /\ ~cur.check
    /\ ret.kind = "return"
    /\ ret.result.returncode = 1
    /\ ret.result.stdout = OutText
    /\ ret.result.stderr = ErrText
    /\ ~succeeded(ret.result)

\* C12 as claimed: install_packages and upgrade_packages called with an
\* empty package list report a caller error: they raise, no apt-get install
\* command without package arguments is run and, in dry-run mode, none is
\* reported as a success.
C12_AsClaimed ==
    (pc = "done" /\ cur.op \in {"install_packages", "upgrade_packages"}
        /\ cur.command = <<>>) =>
        /\ ret.kind = "raise"
        /\ Events({"run", "spawn"}) = {}
        /\ ~(ret.kind = "return" /\ succeeded(ret.result))

\* The text a query of package p yields in database d when dpkg-query is
\* there: None, or the version.
Resolved(d, p) == get_installed_version(p, d, TRUE).val

\* C13: resolve_tool_version depends only on which packages are named, not
\* on their order or on how often each is named: every package list with
\* the same names gives the same outcome on the same database. The result
\* is None when no named package has a version, and otherwise the distinct
\* versions of the named packages, each once, in ascending order, joined
\* with ", ".
C13_ResolveIgnoresOrder ==
    (pc = "done" /\ cur.op = "resolve_tool_version") =>
        /\ \A q \in PackageSeqs :
            Range(q) = Range(cur.command) =>
                /\ resolve_tool_version(Tool("tool", q, TRUE), db, dpkg_ok).raised
                        = (ret.kind = "raise")
                /\ resolve_tool_version(Tool("tool", q, TRUE), db, dpkg_ok).val = ret.val
        /\ dpkg_ok =>
            LET V == {Resolved(db, p)[1] :
                        p \in {x \in Range(cur.command) : Resolved(db, x) # None}}
            IN  /\ ret.kind = "return"
                /\ V = {} <=> ret.val = None
                /\ V # {} =>
                    \E s \in [1..Cardinality(V) -> V] :
                        /\ Range(s) = V
                        /\ \A i \in 1..(Len(s) - 1) : TextLess(s[i], s[i + 1])
                        /\ ret.val = Some(Join(s))

C13_Witness ==
    /\ pc = "done"
    /\ cur.op = "resolve_tool_version"
    /\ cur.command = <<"nmap", "masscan", "nmap">>
    /\ db["nmap"] = Installed(<<"2">>)
    /\ db["masscan"] = Padded
    /\ ret.val = Some(<<"1", ",", " ", "2">>)

\* C14: get_installed_version never raises for a package that is not
\* installed. When dpkg-query is there, the call returns: None for every
\* non-zero exit of the query (whatever it printed) and for a zero exit
\* with empty or blank output, and otherwise the output without the white
\* space around it. Only when dpkg-query cannot be started does it raise,
\* the AptError "dpkg-query command not found", which no return value can
\* be taken for.
C14_MissingIsNotAnError ==
    (pc = "done" /\ cur.op = "get_installed_version") =>
        LET entry == db[cur.command[1]]
            out   == entry.version
        IN  /\ ret.kind \in {"return", "raise"}
            /\ ret.kind = "raise" <=> ~dpkg_ok
            /\ ret.kind = "raise" =>
                /\ ret.exc.type = "AptError"
                /\ ret.exc.msg = "dpkg-query command not found"
                /\ trace = <<Ev("spawn_failed", QueryCmd(cur.command[1]))>>
            /\ ret.kind = "return" =>
                /\ ret.exc = NoError
                /\ trace = <<Ev("spawn", QueryCmd(cur.command[1]))>>
                /\ entry.status \in {"not-installed", "error"} => ret.val = None
                /\ (\A i \in DOMAIN out : out[i] \in Whitespace) => ret.val = None
                /\ (entry.status \notin {"not-installed", "error"}
                        /\ \E i \in DOMAIN out : out[i] \notin Whitespace) =>
                    /\ ret.val # None
                    /\ ret.val[1] # <<>>
                    /\ Head(ret.val[1]) \notin Whitespace
                    /\ ret.val[1][Len(ret.val[1])] \notin Whitespace
                    /\ \E i, j \in 0..Len(out) :
                        /\ i + j <= Len(out)
                        /\ ret.val[1] = SubSeq(out, i + 1, Len(out) - j)
                        /\ \A k \in 1..i : out[k] \in Whitespace
                        /\ \A k \in (Len(out) - j + 1)..Len(out) : out[k] \in Whitespace

C14_Witness ==
    /\ pc = "done"
    /\ cur.op = "get_installed_version"
    /\ dpkg_ok
    /\ db[cur.command[1]] = Broken
    /\ ret.kind = "return"
    /\ ret.val = None

\* A CLI operation on a group key that is not in the catalog.
UnknownGroup ==
    /\ cur.op \in {"install", "list", "versions"}
    /\ cur.category # ""
    /\ StripLower(cur.category) \notin CatalogKeys

\* C15: install, list and versions on a group key that is not in the
\* catalog do the lookup and nothing else: throughout, no privilege check,
\* no look at the record, no version query and no command has happened,
\* and the record and the package database are as before; at the end the
\* handler has printed the unknown-category message, which names the key
\* given and lists exactly the keys of the catalog, sorted, to stderr and
\* has returned exit code 1.
C15_UnknownGroupFailsFirst ==
    UnknownGroup =>
        /\ file = pre.file
        /\ db = pre.db
        /\ Events(RecordEvents \cup {"require_root", "source_exists", "run", "spawn",
                                    "spawn_failed", "exit"}) = {}
        /\ pc \in {"handle_install", "list_categories", "handle_versions", "done"}
        /\ pc = "done" =>
            /\ ret.kind = "return"
            /\ ret.code = 1
            /\ ret.report = <<>>
            /\ Len(trace) = 2
            /\ trace[1] = Ev("get_category", <<cur.category>>)
            /\ trace[2].ev = "print"
            /\ SubSeq(trace[2].args, 1, 4)
                    = <<"stderr", "Unknown category", cur.category, "Available:">>
            /\ Range(SubSeq(trace[2].args, 5, Len(trace[2].args))) = CatalogKeys
            /\ Len(trace[2].args) = 4 + Cardinality(CatalogKeys)

C15_Witness ==
    /\ pc = "done"
    /\ UnknownGroup
    /\ cur.op = "install"
    /\ ~cur.root
    /\ ~source_exists(file)
    /\ ret.code = 1

\* o displays the set S of version texts: None for the empty set, otherwise
\* its elements in ascending order joined with ", ".
Displays(o, S) ==
    IF S = {} THEN o = None
    ELSE \E s \in [1..Cardinality(S) -> S] :
            /\ Range(s) = S
            /\ \A i \in 1..(Len(s) - 1) : TextLess(s[i], s[i + 1])
            /\ o = Some(Join(s))

\* The versions the packages pkgs have in database d.
VersionsIn(d, pkgs) == {d[p].version : p \in {q \in pkgs : d[q].status = "installed"}}

InstallSucceeded ==
    pc = "done" /\ cur.op = "install" /\ ret.kind = "return" /\ ret.code = 0

\* Every line of the report of a finished install pairs, for its tool, the
\* versions in the database the install started with and the versions in
\* the database it ended with.
ReportPairs ==
    LET tools == CATALOG[StripLower(cur.category)].tools
    IN  /\ DOMAIN versions_before = ToolPackages(CATALOG[StripLower(cur.category)])
        /\ \A p \in DOMAIN versions_before : versions_before[p] = VersionIn(pre.db, p)
        /\ Len(ret.report) = Len(tools)
        /\ \A i \in DOMAIN ret.report :
            /\ ret.report[i].tool = tools[i].name
            /\ Displays(ret.report[i].previous, VersionsIn(pre.db, Range(tools[i].packages)))
            /\ Displays(ret.report[i].version, VersionsIn(db, Range(tools[i].packages)))

\* C16 as claimed: in an install that returns 0 the report pairs the
\* versions before with the versions after, and a tool none of whose
\* packages was installed before an install (without --upgrade) that
\* succeeds is reported with previous = not installed and a current
\* version.
C16_AsClaimed ==
    InstallSucceeded =>
        /\ ReportPairs
        /\ ~cur.upgrade =>
            \A i \in DOMAIN ret.report :
                ret.report[i].previous = None => ret.report[i].version # None

\* C16 (amended): in an install that returns 0, each tool's line pairs the
\* versions its packages had in the snapshot, which is the state of the
\* package database before refresh-index and install, with the version
\* resolved from the package database after the install command. When the
\* install command really ran (no --dry-run, no --upgrade) and exited 0, a
\* tool that was not installed before is reported with previous = not
\* installed and a current version; under --dry-run the database is the
\* same before and after, so that tool's current version is still absent.
C16_ReportPairsBeforeAfter ==
    InstallSucceeded =>
        /\ ReportPairs
        /\ (~cur.upgrade /\ ~cur.dry) =>
            \A i \in DOMAIN ret.report :
                /\ ret.report[i].version # None
                /\ ret.report[i].previous = None =>
                    \A p \in Range(CATALOG[StripLower(cur.category)].tools[i].packages) :
                        pre.db[p] = NotInstalled /\ db[p] # NotInstalled
        /\ cur.dry =>
            \A i \in DOMAIN ret.report : ret.report[i].version = ret.report[i].previous

C16_Witness ==
    /\ InstallSucceeded
    /\ ~cur.upgrade
    /\ ~cur.dry
    /\ pre.db["nmap"] = NotInstalled
    /\ ret.report[1].tool = "nmap"
    /\ ret.report[1].previous = None
    /\ ret.report[1].version = Some(<<"2">>)
    /\ ret.report[2].previous = Some(<<"1">>)
    /\ ret.report[2].version = Some(<<"2">>)

\* An install under --dry-run by a privileged caller, of a group of the
\* catalog, with the record present.
DryInstall ==
    /\ InstallKnown
    /\ cur.dry
    /\ cur.root
    /\ source_exists(pre.file)

\* C17 as claimed: under --dry-run, an install (privileged, record present)
\* spawns no apt-get process, leaves every package's installed version and
\* the record unchanged and returns 0; repo enable and repo enable
\* --disable leave the record's presence unchanged.
C17_AsClaimed ==
    /\ DryInstall =>
        /\ AptSpawns = {}
        /\ \A p \in Packages : VersionIn(db, p) = VersionIn(pre.db, p)
        /\ file = pre.file
        /\ pc = "done" => (ret.kind = "return" /\ ret.code = 0)
    /\ (cur.op = "repo enable" /\ cur.dry) =>
        source_exists(file) = source_exists(pre.file)

\* C17 (amended): under --dry-run the mutating subcommands have no side
\* effect at any point: install and repo enable / repo enable --disable
\* spawn no apt-get process, write and remove nothing, and leave the
\* package database and the record as they were. A privileged install of a
\* known group with the record present returns 0 after simulating
\* refresh-index and install when dpkg-query is available; when it is not,
\* the install ends with the "dpkg-query command not found" error instead,
\* still without side effects. A privileged repo enable returns 0 and
\* reports whether a change would have been required.
C17_DryRunCliIsSimulation ==
    (cur.dry /\ cur.op \in {"install", "repo enable"}) =>
        /\ AptSpawns = {}
        /\ Events({"mkdir", "write_text", "unlink", "exit"}) = {}
        /\ db = pre.db
        /\ \A p \in Packages : VersionIn(db, p) = VersionIn(pre.db, p)
        /\ file = pre.file
        /\ source_exists(file) = source_exists(pre.file)
        /\ (pc = "done" /\ DryInstall) =>
            IF dpkg_ok
            THEN /\ ret.kind = "return"
                 /\ ret.code = 0
                 /\ Cardinality(Events({"run"})) = 2
            ELSE /\ ret.kind = "raise"
                 /\ ret.exc.msg = "dpkg-query command not found"
                 /\ Events({"run"}) = {}
        /\ (pc = "done" /\ cur.op = "repo enable" /\ cur.root) =>
            /\ ret.kind = "return"
            /\ ret.code = 0
            /\ ret.flag = (source_exists(pre.file) = cur.disable)

C17_Witness ==
    /\ pc = "done"
    /\ DryInstall
    /\ ~cur.upgrade
    /\ dpkg_ok
    /\ pre.db["nmap"] = NotInstalled
    /\ db["nmap"] = NotInstalled
    /\ ret.code = 0
    /\ Cardinality(Events({"run"})) = 2

\* The manager's own calls on the record outside dry-run mode: what each
\* leaves behind, from every state of the record.
RecordTransitions ==
    /\ (pc = "done" /\ cur.op = "enable_source" /\ ~cur.dry) =>
        /\ ret.kind = "return"
        /\ source_exists(file)
        /\ file = "snippet"
        /\ read_source(file) = KALI_SOURCE_SNIPPET
    /\ (pc = "done" /\ cur.op = "disable_source" /\ ~cur.dry) =>
        /\ ret.kind = "return"
        /\ ~source_exists(file)
        /\ ~source_exists(pre.file) => (file = pre.file /\ Events({"unlink"}) = {})
    /\ (pc = "done" /\ cur.op = "ensure_source" /\ ~cur.dry) =>
        /\ ret.kind = "return"
        /\ source_exists(file) = cur.want

\* C18 as claimed: outside dry-run mode enable_source leaves the record
\* present with the fixed line from every state, disable_source leaves it
\* absent from every state and does nothing, without an error, when it is
\* absent already; after ensure_source(want), source_exists() = want; and
\* read_source returns empty text exactly when the record is absent.
C18_AsClaimed ==
    /\ RecordTransitions
    /\ (pc = "done" /\ cur.op = "read_source") =>
        (ret.val = Some(<<>>) <=> ~source_exists(file))

\* C18 (amended): the transitions are as claimed. read_source returns the
\* empty text whenever the record is absent and the content of the record
\* when it is present: the fixed line once enable_source has written it,
\* and the empty text also for a record that is present but holds no text.
C18_RecordStateMachine ==
    /\ RecordTransitions
    /\ (pc = "done" /\ cur.op = "read_source") =>
        /\ ret.kind = "return"
        /\ file = pre.file
        /\ ~source_exists(file) => ret.val = Some(<<>>)
        /\ source_exists(file) => ret.val = Some(Content(file))
        /\ file = "snippet" => ret.val = Some(KALI_SOURCE_SNIPPET)
        /\ ret.val = Some(<<>>) <=> file \in {"absent", "empty"}

C18_Witness ==
    /\ pc = "done"
    /\ cur.op = "enable_source"
    /\ ~cur.dry
    /\ pre.file = "other"
    /\ file = "snippet"

\* C19 as claimed: next to a process that creates and removes the record
\* between and during the manager's calls, source_exists() returns the
\* state of the file system it is called in; ensure_source(true) that
\* finds the record absent (again) writes it and returns changed = true;
\* and disable_source and ensure_source(false) always complete without an
\* error.
C19_AsClaimed ==
    /\ (pc = "done" /\ cur.op = "source_exists"
            /\ trace[Len(trace)].ev = "source_exists") =>
        ret.flag = source_exists(file)
    /\ (pc = "done" /\ cur.op = "ensure_source" /\ cur.want /\ ~cur.dry
            /\ trace[1] = Ev("source_exists", <<"absent">>)) =>
        /\ ret.kind = "return"
        /\ ret.flag
        /\ Events({"write_text"}) # {}
    /\ (pc = "done"
            /\ (cur.op = "disable_source" \/ (cur.op = "ensure_source" /\ ~cur.want))) =>
        ret.kind = "return"

====
